---- MODULE Spec2Model ----
(***************************************************************************)
(* A model of the lazy_errors crate: the ErrorStash / StashWithErrors      *)
(* builders (stash.rs), the Error tree they are converted into (error.rs), *)
(* the single-result adapters (or_stash.rs, or_create_stash.rs,            *)
(* or_wrap.rs, or_wrap_with.rs), the iterator and array adapters           *)
(* (stash_err.rs, try_collect_or_stash.rs, try_map_or_stash.rs) and the    *)
(* try2! macro (try2.rs).                                                  *)
(*                                                                         *)
(* Values.  An Option<T> is a sequence of length 0 (None) or 1 (Some).     *)
(* A Result<T, E> is [tag |-> "Ok", val |-> v] or [tag |-> "Err",          *)
(* err |-> e].  A value of the inner error type I is a record with a       *)
(* field kind: a foreign error [kind |-> "Foreign", msg], or an Error of   *)
(* this crate (kind "AdHoc", "Wrapped" or "Stashed").  A Location is the   *)
(* source coordinate of a call site, a string.                             *)
(***************************************************************************)
EXTENDS Integers, Sequences, FiniteSets, TLC

VARIABLES
    stash,   \* the builder: none yet, an ErrorStash or a StashWithErrors
    phase,   \* "start" (no builder yet), "live", "done" (builder consumed)
    fcalls,  \* how many times the summary generator has been invoked
    log,     \* history: every (error, location) handed to the builder, in order
    taken,   \* history: how many entries of log have left the builder by take()
    ret,     \* what the last operation returned
    out,     \* the Errors the builder has been converted into, in order
    iter,    \* the StashErrIter borrowing the builder, if any
    origin   \* history: how the builder was created ("new", "or_create_stash")

vars == <<stash, phase, fcalls, log, taken, ret, out, iter, origin>>

(***************************************************************************)
(* Bounds of the model and the input domains.                              *)
(***************************************************************************)
MaxErrors == 2      \* at most this many errors are handed to one builder
MaxItems == MaxErrors \* iterators and arrays have at most this many items
MaxOut == 2         \* at most this many Errors are taken out of one builder

Gens == {"Failure"}          \* summary generators, by the text they yield
Msgs == {"e1", "e2"}                    \* messages of foreign errors
Vals == {"v1", "v2"}                    \* success values
Locs == {"src/main.rs:10", "src/main.rs:20"} \* call sites of the user's code
LocTryMapCaller == "src/main.rs:30"         \* where it calls try_map_or_stash

Foreign(m) == [kind |-> "Foreign", msg |-> m]
ForeignErrs == {Foreign(m) : m \in Msgs}

Ok(v) == [tag |-> "Ok", val |-> v]
Err(e) == [tag |-> "Err", err |-> e]
None == <<>>
Some(x) == <<x>>

\* The element of a one-element set.  The({e(x) : x \in {v}}) is e(v), with
\* v computed once, however often e refers to x.
The(S) == CHOOSE x \in S : TRUE

RECURSIVE SeqsUpTo(_, _)
SeqsUpTo(S, n) ==
    IF n = 0 THEN {<<>>}
    ELSE LET shorter == SeqsUpTo(S, n - 1)
         IN shorter \cup {Append(s, x) : s \in {t \in shorter : Len(t) = n - 1}, x \in S}

Results == {Ok(v) : v \in Vals} \cup {Err(e) : e \in ForeignErrs}

(***************************************************************************)
(* error.rs: the Error tree.                                               *)
(***************************************************************************)
AdHocError_from_message(msg, loc) ==
    [kind |-> "AdHoc", message |-> msg, location |-> loc]

WrappedError_wrap(err, loc) ==
    [kind |-> "Wrapped", context |-> None, inner |-> err, location |-> loc]

WrappedError_wrap_with(err, msg, loc) ==
    [kind |-> "Wrapped", context |-> Some(msg), inner |-> err, location |-> loc]

StashedErrors_from(summary, errors, locations) ==
    [kind |-> "Stashed", summary |-> summary, errors |-> errors,
     locations |-> locations]

Error_from_message(msg, loc) == AdHocError_from_message(msg, loc)
Error_from_stash(summary, errors, locations) ==
    StashedErrors_from(summary, errors, locations)
Error_wrap(err, loc) == WrappedError_wrap(err, loc)
Error_wrap_with(err, msg, loc) == WrappedError_wrap_with(err, msg, loc)

(***************************************************************************)
(* error.rs: Display.  A text is the sequence of its lines, as split at    *)
(* the line breaks: a text without a line break is one line, and writing a *)
(* line break begins a new, empty line.  is_pretty is the `#` flag.        *)
(* Messages, summaries, contexts and locations hold no line breaks.  An    *)
(* inner error that is not an Error of this crate prints its message,      *)
(* whatever the flag.                                                      *)
(***************************************************************************)
Str(s) == <<s>>

\* write!(f, ..) of the text b after the text a
Cat(a, b) ==
    The({ SubSeq(x, 1, Len(x) - 1) \o <<x[Len(x)] \o y[1]>> \o Tail(y) :
          x \in {a}, y \in {b} })

\* str::lines(): a last line that is empty is not a line
Lines(text) ==
    The({ IF t[Len(t)] = "" THEN SubSeq(t, 1, Len(t) - 1) ELSE t : t \in {text} })

display_location(f, indent, location) ==
    Append(f, indent \o "at " \o location)

RECURSIVE Display_fmt(_, _)

\* A variant that repeats the bullet on every line of the block.
display_multiline_bullets(f, err) ==
    The({ f \o [i \in 1..Len(lines) |-> "- " \o lines[i]] :
          lines \in {Lines(Display_fmt(err, TRUE))} })

display_multiline(f, err) ==
    The({ f \o [i \in 1..Len(lines) |->
                    (IF i = 1 THEN "- " ELSE "  ") \o lines[i]] :
          lines \in {Lines(Display_fmt(err, TRUE))} })

RECURSIVE display_list_of_children(_, _, _)
display_list_of_children(f, errs, locs) ==
    IF errs = <<>> \/ locs = <<>> THEN f
    ELSE display_list_of_children(
             display_location(display_multiline(f, Head(errs)), "  ", Head(locs)),
             Tail(errs), Tail(locs))

Display_for_AdHocError(self, is_pretty) ==
    IF ~is_pretty THEN Str(self.message)
    ELSE <<self.message, "at " \o self.location>>

\* A variant that leaves its own location out when the inner error is an
\* Error of this crate, which prints locations itself.
Display_for_WrappedError_once(self, is_pretty) ==
    The({ IF ~is_pretty \/ self.inner.kind # "Foreign" THEN text
          ELSE display_location(text, "", self.location) :
          text \in {IF self.context = None THEN Display_fmt(self.inner, is_pretty)
                    ELSE Cat(Str(self.context[1] \o ": "),
                             Display_fmt(self.inner, is_pretty))} })

Display_for_WrappedError(self, is_pretty) ==
    IF self.context = None
    THEN IF ~is_pretty THEN Display_fmt(self.inner, FALSE)
         ELSE display_location(Display_fmt(self.inner, TRUE), "", self.location)
    ELSE IF ~is_pretty
         THEN Cat(Str(self.context[1] \o ": "), Display_fmt(self.inner, FALSE))
         ELSE display_location(
                  Cat(Str(self.context[1] \o ": "), Display_fmt(self.inner, TRUE)),
                  "", self.location)

\* A variant that counts a single error like several.
Display_for_StashedErrors_counting(self, is_pretty) ==
    IF self.errors = <<>> THEN Str(self.summary \o ": 0 errors")
    ELSE IF self.locations = <<>> THEN Str(self.summary \o ": 0 source locations")
    ELSE IF ~is_pretty
         THEN Str(self.summary \o " (" \o ToString(Len(self.errors)) \o " errors)")
    ELSE display_list_of_children(Str(self.summary), self.errors, self.locations)

\* A variant without the arm for an empty list of locations.
Display_for_StashedErrors_unlocated(self, is_pretty) ==
    IF self.errors = <<>> THEN Str(self.summary \o ": 0 errors")
    ELSE IF ~is_pretty /\ Len(self.errors) = 1
         THEN Cat(Str(self.summary \o ": "), Display_fmt(self.errors[1], FALSE))
    ELSE IF ~is_pretty
         THEN Str(self.summary \o " (" \o ToString(Len(self.errors)) \o " errors)")
    ELSE display_list_of_children(Str(self.summary), self.errors, self.locations)

Display_for_StashedErrors(self, is_pretty) ==
    IF self.errors = <<>> THEN Str(self.summary \o ": 0 errors")
    ELSE IF self.locations = <<>> THEN Str(self.summary \o ": 0 source locations")
    ELSE IF ~is_pretty /\ Len(self.errors) = 1
         THEN Cat(Str(self.summary \o ": "), Display_fmt(self.errors[1], FALSE))
    ELSE IF ~is_pretty
         THEN Str(self.summary \o " (" \o ToString(Len(self.errors)) \o " errors)")
    ELSE display_list_of_children(Str(self.summary), self.errors, self.locations)

\* Display for Error / ErrorData, and for the inner error type
Display_fmt(e, is_pretty) ==
    CASE e.kind = "AdHoc" -> Display_for_AdHocError(e, is_pretty)
      [] e.kind = "Stashed" -> Display_for_StashedErrors(e, is_pretty)
      [] e.kind = "Wrapped" -> Display_for_WrappedError(e, is_pretty)
      [] e.kind = "Foreign" -> Str(e.msg)

(***************************************************************************)
(* stash.rs: StashWithErrors.                                              *)
(***************************************************************************)
StashWithErrors(summary, errors, locations) ==
    [type |-> "StashWithErrors", summary |-> summary, errors |-> errors,
     locations |-> locations]

StashWithErrors_from(summary, error, loc) ==
    StashWithErrors(summary, <<error>>, <<loc>>)

\* Mutant: the error is inserted at the front, the location at the back.
StashWithErrors_push_front(self, err, loc) ==
    [self EXCEPT !.errors = <<err>> \o @, !.locations = Append(@, loc)]

StashWithErrors_push(self, err, loc) ==
    [self EXCEPT !.errors = Append(@, err), !.locations = Append(@, loc)]

StashWithErrors_errors(self) == self.errors

WARNING == "Internal error: Error info cleared by take()"

\* Mutant: the swap goes the wrong way; the dummy is returned and self keeps
\* its contents.
StashWithErrors_take_dummy(self) ==
    LET swap_with == StashWithErrors(WARNING, <<>>, <<>>)
    IN [returned |-> swap_with, self |-> self]

\* Mutant: the contents are cloned, not swapped out.
StashWithErrors_take_clone(self) ==
    [returned |-> self, self |-> self]

\* take(): the old contents are returned, the dummy is left behind in self.
StashWithErrors_take(self) ==
    LET swap_with == StashWithErrors(WARNING, <<>>, <<>>)
    IN [returned |-> self, self |-> swap_with]

\* Mutant: the conversion keeps the first error only.
From_StashWithErrors_for_Error_first(s) ==
    Error_from_stash(s.summary,
                     SubSeq(s.errors, 1, 1), SubSeq(s.locations, 1, 1))

From_StashWithErrors_for_Error(s) ==
    Error_from_stash(s.summary, s.errors, s.locations)

(***************************************************************************)
(* stash.rs: ErrorStash.  A summary generator is identified by the text it *)
(* yields; operations that may invoke it return, next to their result, how *)
(* many times they did (called).                                           *)
(***************************************************************************)
Empty(f) == [type |-> "ErrorStash", tag |-> "Empty", f |-> f]
WithErrors(s) == [type |-> "ErrorStash", tag |-> "WithErrors", swe |-> s]

ErrorStash_new(f) == Empty(f)

\* Mutant: the summary generator is invoked by every push.
ErrorStash_push_and_convert_eager(self, err, loc) ==
    IF self.tag = "Empty"
    THEN [swe |-> StashWithErrors_from(self.f, err, loc), called |-> 1]
    ELSE [swe |-> StashWithErrors_push(self.swe, err, loc), called |-> 1]

ErrorStash_push_and_convert(self, err, loc) ==
    IF self.tag = "Empty"
    THEN [swe |-> StashWithErrors_from(self.f, err, loc), called |-> 1]
    ELSE [swe |-> StashWithErrors_push(self.swe, err, loc), called |-> 0]

\* What a call evaluates to when it runs into unreachable!()
Unreachable == [type |-> "panic", tag |-> "unreachable"]

\* Mutant: the error is pushed into the dummy that was swapped in, and the
\* old value of the stash is dropped.
ErrorStash_push_into_dummy(self, err, loc) ==
    LET dummy == WithErrors(StashWithErrors("", <<>>, <<>>))
        r == ErrorStash_push_and_convert(dummy, err, loc)
    IN [stash |-> WithErrors(r.swe), called |-> r.called, ret |-> r.swe]

\* Mutant: an Empty stash is swapped back as it was, a stash with errors is
\* pushed to.
ErrorStash_push_swap_back(self, err, loc) ==
    IF self.tag = "Empty"
    THEN [stash |-> self, called |-> 0, ret |-> Unreachable]
    ELSE [stash  |-> WithErrors(StashWithErrors_push(self.swe, err, loc)),
          called |-> 0,
          ret    |-> StashWithErrors_push(self.swe, err, loc)]

\* push(): self is swapped with a dummy, the old value is pushed-and-converted
\* and written back as WithErrors; ret is the `&mut StashWithErrors` the
\* final match on self evaluates to.
ErrorStash_push(self, err, loc) ==
    LET swap == self
        r == ErrorStash_push_and_convert(swap, err, loc)
        written == WithErrors(r.swe)
    IN [stash  |-> written,
        called |-> r.called,
        ret    |-> IF written.tag = "Empty" THEN Unreachable ELSE written.swe]

\* Mutant: emptiness is read off the list of errors, not off the state.
ErrorStash_is_empty_by_errors(self) ==
    self.tag = "Empty" \/ StashWithErrors_errors(self.swe) = <<>>

ErrorStash_is_empty(self) == self.tag = "Empty"

ErrorStash_errors(self) ==
    IF self.tag = "Empty" THEN <<>> ELSE StashWithErrors_errors(self.swe)

\* Mutant: the conversion looks at the list of errors, not at the state.
From_ErrorStash_for_Result_by_errors(s) ==
    IF ErrorStash_errors(s) = <<>> THEN Ok(<<>>)
    ELSE Err(From_StashWithErrors_for_Error(s.swe))

From_ErrorStash_for_Result(s) ==
    IF s.tag = "Empty" THEN Ok(<<>>)
    ELSE Err(From_StashWithErrors_for_Error(s.swe))

ErrorStash_into_result(self) == From_ErrorStash_for_Result(self)

(***************************************************************************)
(* stash.rs: the traits ErrorSink, ErrorSource and EnforceErrors, which    *)
(* both builders implement.  S is an ErrorStash or a StashWithErrors.      *)
(***************************************************************************)
ErrorSink_stash(S, err, loc) ==
    IF S.type = "ErrorStash" THEN ErrorStash_push(S, err, loc)
    ELSE [stash  |-> StashWithErrors_push(S, err, loc),
          called |-> 0,
          ret    |-> StashWithErrors_push(S, err, loc)]

ErrorSource_errors(S) ==
    IF S.type = "ErrorStash" THEN ErrorStash_errors(S)
    ELSE StashWithErrors_errors(S)

INTERNAL_ERROR == "INTERNAL ERROR"

\* err!(..) is expanded inside the #[track_caller] method, so the ad-hoc error
\* and the push both carry the location of the caller of enforce_errors.
\* The StashWithErrors a `&mut StashWithErrors` into the builder S refers to,
\* and the builder after that referent has been overwritten.
Referent(S) == IF S.type = "ErrorStash" THEN S.swe ELSE S
WithReferent(S, s) == IF S.type = "ErrorStash" THEN WithErrors(s) ELSE s

\* Mutant: an ErrorStash gets the internal error on every call.
EnforceErrors_enforce_errors_always(S, loc) ==
    IF S.type = "ErrorStash"
    THEN ErrorSink_stash(S, Error_from_message(INTERNAL_ERROR, loc), loc)
    ELSE [stash |-> S, called |-> 0, ret |-> S]

\* Mutant: a StashWithErrors gets the internal error, too.
EnforceErrors_enforce_errors_both(S, loc) ==
    IF S.type = "ErrorStash" /\ S.tag = "WithErrors"
    THEN [stash |-> S, called |-> 0, ret |-> S.swe]
    ELSE ErrorSink_stash(S, Error_from_message(INTERNAL_ERROR, loc), loc)

\* ret is the `&mut StashWithErrors` that is returned.
EnforceErrors_enforce_errors(S, loc) ==
    IF S.type = "ErrorStash" /\ S.tag = "Empty"
    THEN ErrorSink_stash(S, Error_from_message(INTERNAL_ERROR, loc), loc)
    ELSE [stash |-> S, called |-> 0, ret |-> Referent(S)]

(***************************************************************************)
(* or_stash.rs: StashedResult and or_stash.  StashedResult::Err holds a    *)
(* `&mut StashWithErrors` into the builder; the model records the referent *)
(* as it is when the marker is returned.                                   *)
(***************************************************************************)
StashedOk(v) == [type |-> "StashedResult", tag |-> "Ok", val |-> v]
StashedErr(s) == [type |-> "StashedResult", tag |-> "Err", errs |-> s]
\* Mutant: the reference for the marker is obtained, by enforce_errors,
\* before the result is looked at.
OrStash_for_ErrorStash_enforcing(self, S, loc) ==
    LET e == EnforceErrors_enforce_errors(S, loc)
    IN IF self.tag = "Ok"
       THEN [ret |-> StashedOk(self.val), stash |-> e.stash, called |-> e.called]
       ELSE LET p == ErrorStash_push(e.stash, self.err, loc)
            IN [ret    |-> StashedErr(p.stash.swe),
                stash  |-> p.stash,
                called |-> e.called + p.called]

OrStash_for_ErrorStash(self, S, loc) ==
    IF self.tag = "Ok"
    THEN [ret |-> StashedOk(self.val), stash |-> S, called |-> 0]
    ELSE LET p == ErrorStash_push(S, self.err, loc)
         IN [ret    |-> IF p.stash.tag = "Empty" THEN Unreachable
                        ELSE StashedErr(p.stash.swe),
             stash  |-> p.stash,
             called |-> p.called]

OrStash_for_StashWithErrors(self, S, loc) ==
    IF self.tag = "Ok"
    THEN [ret |-> StashedOk(self.val), stash |-> S, called |-> 0]
    ELSE LET s == StashWithErrors_push(S, self.err, loc)
         IN [ret |-> StashedErr(s), stash |-> s, called |-> 0]

or_stash(self, S, loc) ==
    IF S.type = "ErrorStash" THEN OrStash_for_ErrorStash(self, S, loc)
    ELSE OrStash_for_StashWithErrors(self, S, loc)

StashedResult_ok(self) == IF self.tag = "Ok" THEN Some(self.val) ELSE None

ErrorStash_ok(self) ==
    IF self.tag = "Empty" THEN StashedOk(<<>>) ELSE StashedErr(self.swe)

(***************************************************************************)
(* try2.rs: try2!(expr) applied to a StashedResult whose Err marker refers *)
(* into the builder S.  flow is "continue" (the macro evaluates to val) or *)
(* "return" (the enclosing function returns result).                       *)
(***************************************************************************)
try2(expr, S) ==
    IF expr.tag = "Ok"
    THEN [flow |-> "continue", val |-> expr.val, stash |-> S]
    ELSE LET t == StashWithErrors_take(Referent(S))
         IN [flow   |-> "return",
             result |-> Err(From_StashWithErrors_for_Error(t.returned)),
             stash  |-> WithReferent(S, t.self)]

(***************************************************************************)
(* or_create_stash.rs, or_wrap.rs, or_wrap_with.rs.  f is the summary or   *)
(* context closure, identified by the text it yields.                      *)
(***************************************************************************)
\* Mutant: the summary closure is evaluated before the result is looked at.
or_create_stash_eager(self, f, loc) ==
    IF self.tag = "Ok" THEN [ret |-> Ok(self.val), called |-> 1]
    ELSE [ret |-> Err(StashWithErrors_from(f, self.err, loc)), called |-> 1]

or_create_stash(self, f, loc) ==
    IF self.tag = "Ok" THEN [ret |-> Ok(self.val), called |-> 0]
    ELSE [ret |-> Err(StashWithErrors_from(f, self.err, loc)), called |-> 1]

or_wrap(self, loc) ==
    IF self.tag = "Ok" THEN Ok(self.val) ELSE Err(Error_wrap(self.err, loc))

\* Mutant: the context closure is evaluated before the result is looked at.
or_wrap_with_eager(self, f, loc) ==
    IF self.tag = "Ok" THEN [ret |-> Ok(self.val), called |-> 1]
    ELSE [ret |-> Err(Error_wrap_with(self.err, f, loc)), called |-> 1]

or_wrap_with(self, f, loc) ==
    IF self.tag = "Ok" THEN [ret |-> Ok(self.val), called |-> 0]
    ELSE [ret |-> Err(Error_wrap_with(self.err, f, loc)), called |-> 1]

(***************************************************************************)
(* stash_err.rs: StashErrIter.  The iterator is the sequence of items not  *)
(* yet pulled from the source; it borrows the builder S.  next() has no    *)
(* #[track_caller], so every push it makes has the location of its own     *)
(* call of or_stash.                                                       *)
(***************************************************************************)
LocStashErrNext == "src/stash_err.rs:147"

StashErr_stash_err(items, S) == [iter |-> items, stash |-> S]

\* Mutant: next() gives up at the first failure, as `?` would.
StashErrIter_next_short(items, S) ==
    IF items = <<>>
    THEN [item |-> None, iter |-> items, stash |-> S, called |-> 0]
    ELSE The({
            IF r.ret.tag = "Ok"
            THEN [item |-> Some(r.ret.val), iter |-> Tail(items),
                  stash |-> r.stash, called |-> r.called]
            ELSE [item |-> None, iter |-> Tail(items),
                  stash |-> r.stash, called |-> r.called]
            : r \in {or_stash(Head(items), S, LocStashErrNext)} })

\* Mutant: next() looks one item ahead of the value it returns and stashes
\* that item already if it is a failure.
RECURSIVE StashErrIter_next_ahead(_, _)
StashErrIter_next_ahead(items, S) ==
    IF items = <<>>
    THEN [item |-> None, iter |-> items, stash |-> S, called |-> 0]
    ELSE The({
            IF r.ret.tag = "Ok"
            THEN IF Tail(items) # <<>> /\ Tail(items)[1].tag = "Err"
                 THEN The({ [item |-> Some(r.ret.val), iter |-> Tail(Tail(items)),
                             stash |-> q.stash, called |-> r.called + q.called] :
                            q \in {or_stash(Tail(items)[1], r.stash, LocStashErrNext)} })
                 ELSE [item |-> Some(r.ret.val), iter |-> Tail(items),
                       stash |-> r.stash, called |-> r.called]
            ELSE The({ [n EXCEPT !.called = @ + r.called] :
                       n \in {StashErrIter_next_ahead(Tail(items), r.stash)} })
            : r \in {or_stash(Head(items), S, LocStashErrNext)} })

RECURSIVE StashErrIter_next(_, _)
StashErrIter_next(items, S) ==
    IF items = <<>>
    THEN [item |-> None, iter |-> items, stash |-> S, called |-> 0]
    ELSE The({
            IF r.ret.tag = "Ok"
            THEN [item |-> Some(r.ret.val), iter |-> Tail(items),
                  stash |-> r.stash, called |-> r.called]
            ELSE The({ [n EXCEPT !.called = @ + r.called] :
                       n \in {StashErrIter_next(Tail(items), r.stash)} })
            : r \in {or_stash(Head(items), S, LocStashErrNext)} })

\* Iterator::collect on a StashErrIter: next() until it returns None.
RECURSIVE StashErrIter_collect(_, _)
StashErrIter_collect(items, S) ==
    The({
        IF n.item = None
        THEN [vals |-> <<>>, stash |-> n.stash, called |-> n.called]
        ELSE The({ [vals   |-> <<n.item[1]>> \o c.vals,
                    stash  |-> c.stash,
                    called |-> n.called + c.called] :
                   c \in {StashErrIter_collect(n.iter, n.stash)} })
        : n \in {StashErrIter_next(items, S)} })

(***************************************************************************)
(* try_collect_or_stash.rs.                                                *)
(***************************************************************************)
LocTryCollectWrap == "src/try_collect_or_stash.rs:154"
LocTryCollectEnforce == "src/try_collect_or_stash.rs:164"

MapSeq(Op(_), s) == [i \in 1..Len(s) |-> Op(s[i])]

\* Mutant: failure is reported whenever the builder holds errors afterwards,
\* whoever added them.
TryCollectOrStash_try_collect_or_stash_any(items, S) ==
    LET WrapItem(r) == or_wrap(r, LocTryCollectWrap)
        wrapped == MapSeq(WrapItem, items)
    IN The({
        IF Len(ErrorSource_errors(c.stash)) = 0
        THEN [ret |-> StashedOk(c.vals), stash |-> c.stash, called |-> c.called]
        ELSE LET e == EnforceErrors_enforce_errors(c.stash, LocTryCollectEnforce)
             IN [ret    |-> StashedErr(Referent(e.stash)),
                 stash  |-> e.stash,
                 called |-> c.called + e.called]
        : c \in {StashErrIter_collect(StashErr_stash_err(wrapped, S).iter, S)} })

\* Mutant: the items are collected the way Result collects, stopping at the
\* first failure, which alone is put into the builder.
TryCollectOrStash_try_collect_or_stash_short(items, S) ==
    LET failed == SelectSeq(items, LAMBDA r : r.tag = "Err")
    IN IF failed = <<>>
       THEN [ret    |-> StashedOk([i \in 1..Len(items) |-> items[i].val]),
             stash  |-> S,
             called |-> 0]
       ELSE The({ [ret    |-> StashedErr(Referent(r.stash)),
                   stash  |-> r.stash,
                   called |-> r.called] :
                  r \in {or_stash(or_wrap(failed[1], LocTryCollectWrap), S,
                                  LocStashErrNext)} })

TryCollectOrStash_try_collect_or_stash(items, S) ==
    LET before == Len(ErrorSource_errors(S))
        WrapItem(r) == or_wrap(r, LocTryCollectWrap)
        wrapped == MapSeq(WrapItem, items)
    IN The({
        IF before = Len(ErrorSource_errors(c.stash))
        THEN [ret |-> StashedOk(c.vals), stash |-> c.stash, called |-> c.called]
        ELSE LET e == EnforceErrors_enforce_errors(c.stash, LocTryCollectEnforce)
             IN [ret    |-> StashedErr(Referent(e.stash)),
                 stash  |-> e.stash,
                 called |-> c.called + e.called]
        : c \in {StashErrIter_collect(StashErr_stash_err(wrapped, S).iter, S)} })

(***************************************************************************)
(* try_map_or_stash.rs.  The closures passed to filter_map are not         *)
(* #[track_caller], so the pushes have the locations of the calls inside   *)
(* them.  f is a function from the input values to Result values.          *)
(***************************************************************************)
LocFilterMap == "src/try_map_or_stash.rs:247"
LocFilterMapOk == "src/try_map_or_stash.rs:268"
LocFilterMapErr == "src/try_map_or_stash.rs:270"
LocVecTryInto == "src/try_map_or_stash.rs:286"
VEC_TO_ARRAY_FAILED == "INTERNAL ERROR: Failed to convert vector to array"

\* Mutant: the mapping stops at the first element that fails.
RECURSIVE filter_map_or_stash_short(_, _, _)
filter_map_or_stash_short(array, f, S) ==
    IF array = <<>> THEN [vec |-> <<>>, stash |-> S, called |-> 0]
    ELSE The({
            IF r.ret.tag = "Err"
            THEN [vec |-> <<>>, stash |-> r.stash, called |-> r.called]
            ELSE The({ [vec    |-> <<r.ret.val>> \o rest.vec,
                        stash  |-> rest.stash,
                        called |-> r.called + rest.called] :
                       rest \in {filter_map_or_stash_short(Tail(array), f, r.stash)} })
            : r \in {or_stash(f[Head(array)], S, LocFilterMap)} })

RECURSIVE filter_map_or_stash(_, _, _)
filter_map_or_stash(array, f, S) ==
    IF array = <<>> THEN [vec |-> <<>>, stash |-> S, called |-> 0]
    ELSE The({
            The({ [vec    |-> StashedResult_ok(r.ret) \o rest.vec,
                   stash  |-> rest.stash,
                   called |-> r.called + rest.called] :
                  rest \in {filter_map_or_stash(Tail(array), f, r.stash)} })
            : r \in {or_stash(f[Head(array)], S, LocFilterMap)} })

RECURSIVE filter_map_ok_or_stash(_, _, _)
filter_map_ok_or_stash(array, f, S) ==
    IF array = <<>> THEN [vec |-> <<>>, stash |-> S, called |-> 0]
    ELSE LET h == Head(array)
             first ==
                 IF h.tag = "Ok"
                 THEN LET m == or_stash(f[h.val], S, LocFilterMapOk)
                      IN [o |-> StashedResult_ok(m.ret), stash |-> m.stash,
                          called |-> m.called]
                 ELSE LET p == ErrorSink_stash(S, h.err, LocFilterMapErr)
                      IN [o |-> None, stash |-> p.stash, called |-> p.called]
         IN The({
                The({ [vec    |-> r.o \o rest.vec,
                       stash  |-> rest.stash,
                       called |-> r.called + rest.called] :
                      rest \in {filter_map_ok_or_stash(Tail(array), f, r.stash)} })
                : r \in {first} })

\* vec.try_into() succeeds exactly if the vector has N elements.
vec_try_into_or_stash(vec, N, S) ==
    LET converted == IF Len(vec) = N THEN Ok(vec)
                     ELSE Err(Error_from_message(VEC_TO_ARRAY_FAILED, LocVecTryInto))
    IN or_stash(converted, S, LocVecTryInto)

\* The part both implementations share, after the elements have been mapped.
\* Mutant: failure is reported whenever the builder holds errors afterwards,
\* whoever added them.
TryMapOrStash_finish_any(mapped, N, loc) ==
    The({
        IF Len(m.vec) # N \/ ErrorSource_errors(m.stash) # <<>>
        THEN LET e == EnforceErrors_enforce_errors(m.stash, loc)
             IN [ret    |-> StashedErr(Referent(e.stash)),
                 stash  |-> e.stash,
                 called |-> m.called + e.called]
        ELSE LET v == vec_try_into_or_stash(m.vec, N, m.stash)
             IN [v EXCEPT !.called = @ + m.called]
        : m \in {mapped} })

\* Mutant: the vector is converted without a look at its length.
TryMapOrStash_finish_convert(mapped, N, loc) ==
    The({ [v EXCEPT !.called = @ + m.called] :
          m \in {mapped}, v \in {vec_try_into_or_stash(mapped.vec, N, mapped.stash)} })

TryMapOrStash_finish(mapped, N, loc) ==
    The({
        IF Len(m.vec) # N
        THEN LET e == EnforceErrors_enforce_errors(m.stash, loc)
             IN [ret    |-> StashedErr(Referent(e.stash)),
                 stash  |-> e.stash,
                 called |-> m.called + e.called]
        ELSE LET v == vec_try_into_or_stash(m.vec, N, m.stash)
             IN [v EXCEPT !.called = @ + m.called]
        : m \in {mapped} })

\* impl TryMapOrStash for [T; N]
TryMapOrStash_for_array(array, f, S, loc) ==
    TryMapOrStash_finish(filter_map_or_stash(array, f, S), Len(array), loc)

\* impl TryMapOrStash for [Result<T, E1>; N]
TryMapOrStash_for_array_of_results(array, f, S, loc) ==
    TryMapOrStash_finish(filter_map_ok_or_stash(array, f, S), Len(array), loc)

(***************************************************************************)
(* The state machine: a caller that creates one builder and applies the    *)
(* public operations to it in any order the borrow checker admits.         *)
(***************************************************************************)
NoStash == [type |-> "None"]
NoRet == [op |-> "none"]
\* iter.items are the items the StashErrIter has not pulled yet.  src (the
\* items the source held when the adapter was created), yielded (the values
\* next() has returned) and before (the number of errors the builder held
\* at that time) are history, kept for as long as the adapter lives.
NoIter == [active |-> FALSE, items |-> <<>>, src |-> <<>>, yielded |-> <<>>,
           before |-> 0]

Entry(e, loc) == [err |-> e, loc |-> loc]
ItemSeqs == SeqsUpTo(Results, MaxItems)
IsErr(r) == r.tag = "Err"
Failures(items) == SelectSeq(items, IsErr)

\* The builder is usable: it exists, it has not been consumed and no
\* StashErrIter holds the `&mut` borrow of it.
Usable == phase = "live" /\ ~iter.active
\* An operation that may hand up to n errors to the builder is started only
\* while the bounded history has room for all of them (and for at least one).
Room(n) == Len(log) + n <= MaxErrors /\ Len(log) < MaxErrors
IsErrorStash == stash.type = "ErrorStash"
HasReferent == stash.type = "StashWithErrors" \/ (IsErrorStash /\ stash.tag = "WithErrors")

Init ==
    /\ stash = NoStash
    /\ phase = "start"
    /\ fcalls = 0
    /\ log = <<>>
    /\ taken = 0
    /\ ret = NoRet
    /\ out = <<>>
    /\ iter = NoIter
    /\ origin = "none"

\* ErrorStash::new(f)
New(f) ==
    /\ phase = "start"
    /\ stash' = ErrorStash_new(f)
    /\ phase' = "live"
    /\ ret' = [op |-> "new"]
    /\ origin' = "new"
    /\ UNCHANGED <<fcalls, log, taken, out, iter>>

\* result.or_create_stash(f)
OrCreateStash(r, f, loc) ==
    /\ phase = "start"
    /\ LET c == or_create_stash(r, f, loc)
       IN /\ ret' = [op |-> "or_create_stash", in |-> r, f |-> f, val |-> c.ret]
          /\ fcalls' = fcalls + c.called
          /\ IF c.ret.tag = "Err"
             THEN /\ stash' = c.ret.err
                  /\ phase' = "live"
                  /\ log' = Append(log, Entry(r.err, loc))
                  /\ origin' = "or_create_stash"
             ELSE UNCHANGED <<stash, phase, log, origin>>
    /\ UNCHANGED <<taken, out, iter>>

\* stash.push(e), on an ErrorStash or on a StashWithErrors
Push(e, loc) ==
    /\ Usable /\ Room(1)
    /\ LET p == ErrorSink_stash(stash, e, loc)
       IN /\ stash' = p.stash
          /\ fcalls' = fcalls + p.called
          /\ ret' = [op |-> "push", val |-> p.ret]
    /\ log' = Append(log, Entry(e, loc))
    /\ UNCHANGED <<phase, taken, out, iter, origin>>

\* stash.push_and_convert(e): the ErrorStash is consumed, the caller goes on
\* with the StashWithErrors it gets by value.
PushAndConvert(e, loc) ==
    /\ Usable /\ Room(1) /\ IsErrorStash
    /\ LET p == ErrorStash_push_and_convert(stash, e, loc)
       IN /\ stash' = p.swe
          /\ fcalls' = fcalls + p.called
          /\ ret' = [op |-> "push_and_convert", val |-> p.swe]
    /\ log' = Append(log, Entry(e, loc))
    /\ UNCHANGED <<phase, taken, out, iter, origin>>

\* result.or_stash(&mut stash)
OrStash(r, loc) ==
    /\ Usable /\ Room(1)
    /\ LET o == or_stash(r, stash, loc)
       IN /\ stash' = o.stash
          /\ fcalls' = fcalls + o.called
          /\ ret' = [op |-> "or_stash", in |-> r, val |-> o.ret]
    /\ log' = IF IsErr(r) THEN Append(log, Entry(r.err, loc)) ELSE log
    /\ UNCHANGED <<phase, taken, out, iter, origin>>

\* stash.ok()
StashOk ==
    /\ Usable /\ IsErrorStash
    /\ ret' = [op |-> "ok", val |-> ErrorStash_ok(stash)]
    /\ UNCHANGED <<stash, phase, fcalls, log, taken, out, iter, origin>>

\* stash.enforce_errors()
EnforceErrors(loc) ==
    /\ Usable
    /\ (IsErrorStash /\ stash.tag = "Empty") => Room(1)
    /\ LET e == EnforceErrors_enforce_errors(stash, loc)
       IN /\ stash' = e.stash
          /\ fcalls' = fcalls + e.called
          /\ ret' = [op |-> "enforce_errors", val |-> e.ret,
                     again |-> ret.op = "enforce_errors"]
    /\ log' = IF IsErrorStash /\ stash.tag = "Empty"
              THEN Append(log, Entry(Error_from_message(INTERNAL_ERROR, loc), loc))
              ELSE log
    /\ UNCHANGED <<phase, taken, out, iter, origin>>

\* try2!(expr), where expr is the StashedResult the last operation returned
IsStashedResult(r) ==
    r.op \in {"or_stash", "ok", "try_collect_or_stash", "try_map_or_stash"}
        /\ r.val.type = "StashedResult"

Try2 ==
    /\ Usable /\ IsStashedResult(ret)
    /\ Len(out) < MaxOut
    /\ LET t == try2(ret.val, stash)
       IN /\ stash' = t.stash
          /\ IF t.flow = "continue"
             THEN /\ ret' = [op |-> "try2", flow |-> "continue", val |-> t.val]
                  /\ UNCHANGED <<out, taken>>
             ELSE /\ ret' = [op |-> "try2", flow |-> "return", val |-> t.result]
                  /\ out' = Append(out, t.result.err)
                  /\ taken' = Len(log)
    /\ UNCHANGED <<phase, fcalls, log, iter, origin>>

\* stash.into() / stash.into_result(): the ErrorStash is consumed
IntoResult ==
    /\ Usable /\ IsErrorStash
    /\ LET r == ErrorStash_into_result(stash)
       IN /\ ret' = [op |-> "into_result", val |-> r]
          /\ out' = IF r.tag = "Err" THEN Append(out, r.err) ELSE out
    /\ phase' = "done"
    /\ UNCHANGED <<stash, fcalls, log, taken, iter, origin>>

\* Error::from(stash): the StashWithErrors is consumed
IntoError ==
    /\ Usable /\ stash.type = "StashWithErrors"
    /\ LET e == From_StashWithErrors_for_Error(stash)
       IN /\ ret' = [op |-> "into_error", val |-> e]
          /\ out' = Append(out, e)
    /\ phase' = "done"
    /\ UNCHANGED <<stash, fcalls, log, taken, iter, origin>>

\* iter.stash_err(&mut stash): the adapter is created, nothing is pulled
StashErr(items) ==
    /\ Usable /\ Room(Len(items))
    /\ iter' = [active  |-> TRUE,
                items   |-> StashErr_stash_err(items, stash).iter,
                src     |-> items,
                yielded |-> <<>>,
                before  |-> Len(ErrorSource_errors(stash))]
    /\ ret' = [op |-> "stash_err"]
    /\ UNCHANGED <<stash, phase, fcalls, log, taken, out, origin>>

\* The items one call of next() pulls: up to and including the first Ok item.
Pulled(items) ==
    IF \E i \in 1..Len(items) : items[i].tag = "Ok"
    THEN SubSeq(items, 1, CHOOSE i \in 1..Len(items) :
                            /\ items[i].tag = "Ok"
                            /\ \A j \in 1..(i - 1) : items[j].tag = "Err")
    ELSE items

LogAll(errs, loc) == [i \in 1..Len(errs) |-> Entry(errs[i].err, loc)]

\* The consumer asks the adapter for its next value
Next_ ==
    /\ phase = "live" /\ iter.active
    /\ \E n \in {StashErrIter_next(iter.items, stash)} :
          /\ stash' = n.stash
          /\ fcalls' = fcalls + n.called
          /\ iter' = [iter EXCEPT !.items = n.iter,
                                  !.yielded = @ \o n.item]
          /\ ret' = [op |-> "next", val |-> n.item]
    /\ log' = log \o LogAll(Failures(Pulled(iter.items)), LocStashErrNext)
    /\ UNCHANGED <<phase, taken, out, origin>>

\* The adapter is dropped; the borrow of the builder ends
DropIter ==
    /\ phase = "live" /\ iter.active
    /\ iter' = NoIter
    /\ ret' = [op |-> "drop"]
    /\ UNCHANGED <<stash, phase, fcalls, log, taken, out, origin>>

\* iter.try_collect_or_stash(&mut stash)
WrappedEntry(r) == Entry(Error_wrap(r.err, LocTryCollectWrap), LocStashErrNext)

TryCollect(items) ==
    /\ Usable /\ Room(Len(items))
    /\ \E c \in {TryCollectOrStash_try_collect_or_stash(items, stash)} :
          /\ stash' = c.stash
          /\ fcalls' = fcalls + c.called
          /\ ret' = [op |-> "try_collect_or_stash", in |-> items, val |-> c.ret]
    /\ log' = log \o MapSeq(WrappedEntry, Failures(items))
    /\ UNCHANGED <<phase, taken, out, iter, origin>>

\* The closure passed to try_map_or_stash: u8::from_str on the inputs below.
Inputs == {"1", "42", "X"}
InvalidDigit == Foreign("invalid digit found in string")
from_str == [v \in Inputs |-> IF v = "1" THEN Ok("u8:1")
                              ELSE IF v = "42" THEN Ok("u8:42")
                              ELSE Err(InvalidDigit)]
MapFns == {from_str}
InputResults == {Ok("1"), Ok("X"), Err(Foreign("e1"))}

\* What element x of an array handed to try_map_or_stash(f, ..) fails with,
\* if it fails: a sequence of zero or one log entries.
PlainFailure(x, f) ==
    IF f[x].tag = "Err" THEN <<Entry(f[x].err, LocFilterMap)>> ELSE <<>>
ResultFailure(x, f) ==
    IF x.tag = "Err" THEN <<Entry(x.err, LocFilterMapErr)>>
    ELSE IF f[x.val].tag = "Err" THEN <<Entry(f[x.val].err, LocFilterMapOk)>>
    ELSE <<>>

RECURSIVE Concat(_)
Concat(ss) == IF ss = <<>> THEN <<>> ELSE Head(ss) \o Concat(Tail(ss))

\* array.try_map_or_stash(f, &mut stash) on [T; N]
TryMap(array, f, loc) ==
    /\ Usable /\ Room(Len(array))
    /\ \E m \in {TryMapOrStash_for_array(array, f, stash, loc)} :
          /\ stash' = m.stash
          /\ fcalls' = fcalls + m.called
          /\ ret' = [op |-> "try_map_or_stash", on |-> "T", in |-> array,
                     val |-> m.ret]
    /\ log' = log \o Concat([i \in 1..Len(array) |-> PlainFailure(array[i], f)])
    /\ UNCHANGED <<phase, taken, out, iter, origin>>

\* array.try_map_or_stash(f, &mut stash) on [Result<T, E1>; N]
TryMapResults(array, f, loc) ==
    /\ Usable /\ Room(Len(array))
    /\ \E m \in {TryMapOrStash_for_array_of_results(array, f, stash, loc)} :
          /\ stash' = m.stash
          /\ fcalls' = fcalls + m.called
          /\ ret' = [op |-> "try_map_or_stash", on |-> "Result", in |-> array,
                     val |-> m.ret]
    /\ log' = log \o Concat([i \in 1..Len(array) |-> ResultFailure(array[i], f)])
    /\ UNCHANGED <<phase, taken, out, iter, origin>>

Next ==
    \/ \E f \in Gens : New(f)
    \/ \E r \in Results, f \in Gens, loc \in Locs : OrCreateStash(r, f, loc)
    \/ \E e \in ForeignErrs, loc \in Locs : Push(e, loc)
    \/ \E e \in ForeignErrs, loc \in Locs : PushAndConvert(e, loc)
    \/ \E r \in Results, loc \in Locs : OrStash(r, loc)
    \/ StashOk
    \/ \E loc \in Locs : EnforceErrors(loc)
    \/ Try2
    \/ IntoResult
    \/ IntoError
    \/ \E items \in ItemSeqs : StashErr(items)
    \/ Next_
    \/ DropIter
    \/ \E items \in ItemSeqs : TryCollect(items)
    \/ \E array \in SeqsUpTo(Inputs, MaxItems), f \in MapFns :
          TryMap(array, f, LocTryMapCaller)
    \/ \E array \in SeqsUpTo(InputResults, MaxItems), f \in MapFns :
          TryMapResults(array, f, LocTryMapCaller)

Spec == Init /\ [][Next]_vars

(***************************************************************************)
(* A second state machine, for or_wrap and or_wrap_with: a Result is       *)
(* passed through a chain of calls, each wrapping the error of the one     *)
(* before.  ret is the Result the last call returned, fcalls counts the    *)
(* invocations of the context closures; there is no builder.               *)
(***************************************************************************)
MaxWraps == 3       \* an error is wrapped at most this many times
Contexts == {"Not an u32", "Input is not ASCII"}

RECURSIVE WrapDepth(_)
WrapDepth(e) == IF e.kind = "Wrapped" THEN 1 + WrapDepth(e.inner) ELSE 0
CanWrap == phase = "wrap" /\ (ret.val.tag = "Err" => WrapDepth(ret.val.err) < MaxWraps)

InitWrap ==
    /\ stash = NoStash
    /\ phase = "wrap"
    /\ fcalls = 0
    /\ log = <<>>
    /\ taken = 0
    /\ \E r \in Results : ret = [op |-> "input", val |-> r]
    /\ out = <<>>
    /\ iter = NoIter
    /\ origin = "none"

\* result.or_wrap()
OrWrap(loc) ==
    /\ CanWrap
    /\ ret' = [op |-> "or_wrap", in |-> ret.val, loc |-> loc,
               val |-> or_wrap(ret.val, loc)]
    /\ UNCHANGED <<stash, phase, fcalls, log, taken, out, iter, origin>>

\* result.or_wrap_with(f)
OrWrapWith(f, loc) ==
    /\ CanWrap
    /\ LET w == or_wrap_with(ret.val, f, loc)
       IN /\ ret' = [op |-> "or_wrap_with", in |-> ret.val, f |-> f, loc |-> loc,
                     val |-> w.ret]
          /\ fcalls' = fcalls + w.called
    /\ UNCHANGED <<stash, phase, log, taken, out, iter, origin>>

NextWrap ==
    \/ \E loc \in Locs : OrWrap(loc)
    \/ \E f \in Contexts, loc \in Locs : OrWrapWith(f, loc)

SpecWrap == InitWrap /\ [][NextWrap]_vars

(***************************************************************************)
(* A third state machine, for Display: an Error is built bottom-up by      *)
(* Error::from_stash, Error::wrap and Error::wrap_with, and printed with   *)
(* "{}" or "{:#}".  ret.val is the Error built so far and, after           *)
(* printing, ret.text the output.                                          *)
(***************************************************************************)
MaxNesting == 2     \* an Error is nested at most this deep
LocCleanup == "src/main.rs:40"
LocWrap == "src/main.rs:50"
DisplayLeaves ==
    {Foreign("e1"), Foreign(""), Error_from_message("Cleanup failed", LocCleanup)}
Summary == "Failed to run application"
Context == "Not an u32"
\* The lists Error::from_stash is called with: they need not be equally long.
ChildLists(e) ==
    {<<>>, <<e>>, <<e, Foreign("e2")>>,
     <<Error_from_message("Cleanup failed", LocCleanup), e>>}
LocLists ==
    {<<>>, <<"src/main.rs:10">>, <<"src/main.rs:10", "src/main.rs:20">>,
     <<"src/main.rs:20", "src/main.rs:10", "src/main.rs:10">>}

Max(a, b) == IF a >= b THEN a ELSE b
RECURSIVE Nesting(_)
Nesting(e) ==
    CASE e.kind = "Wrapped" -> 1 + Nesting(e.inner)
      [] e.kind = "Stashed" ->
            IF e.errors = <<>> THEN 1
            ELSE 1 + Max(Nesting(e.errors[1]), Nesting(e.errors[Len(e.errors)]))
      [] OTHER -> 0
CanNest == phase = "display" /\ Nesting(ret.val) < MaxNesting

InitDisplay ==
    /\ stash = NoStash
    /\ phase = "display"
    /\ fcalls = 0
    /\ log = <<>>
    /\ taken = 0
    /\ \E e \in DisplayLeaves : ret = [op |-> "input", val |-> e]
    /\ out = <<>>
    /\ iter = NoIter
    /\ origin = "none"

\* Error::from_stash(summary, errors, locations)
FromStash(errs, locs) ==
    /\ CanNest
    /\ ret' = [op |-> "from_stash", val |-> Error_from_stash(Summary, errs, locs)]
    /\ UNCHANGED <<stash, phase, fcalls, log, taken, out, iter, origin>>

\* Error::wrap(err)
Wrap ==
    /\ CanNest
    /\ ret' = [op |-> "wrap", val |-> Error_wrap(ret.val, LocWrap)]
    /\ UNCHANGED <<stash, phase, fcalls, log, taken, out, iter, origin>>

\* Error::wrap_with(err, msg)
WrapWith ==
    /\ CanNest
    /\ ret' = [op |-> "wrap_with", val |-> Error_wrap_with(ret.val, Context, LocWrap)]
    /\ UNCHANGED <<stash, phase, fcalls, log, taken, out, iter, origin>>

\* format!("{err}") and format!("{err:#}")
Format(is_pretty) ==
    /\ phase = "display"
    /\ ret.op # "format"
    /\ ret' = [op |-> "format", val |-> ret.val, pretty |-> is_pretty,
               text |-> Display_fmt(ret.val, is_pretty)]
    /\ UNCHANGED <<stash, phase, fcalls, log, taken, out, iter, origin>>

NextDisplay ==
    \/ \E errs \in ChildLists(ret.val), locs \in LocLists : FromStash(errs, locs)
    \/ Wrap
    \/ WrapWith
    \/ \E is_pretty \in BOOLEAN : Format(is_pretty)

SpecDisplay == InitDisplay /\ [][NextDisplay]_vars

(***************************************************************************)
(* What the caller can observe of the builder, and the history it is       *)
(* compared with.                                                          *)
(***************************************************************************)
errors == ErrorSource_errors(stash)
locations == IF HasReferent THEN Referent(stash).locations ELSE <<>>
summary == Referent(stash).summary

LogErrs(l) == [i \in 1..Len(l) |-> l[i].err]
LogLocs(l) == [i \in 1..Len(l) |-> l[i].loc]
\* The entries handed to the builder since take() last emptied it
Kept == SubSeq(log, taken + 1, Len(log))

(***************************************************************************)
(* C1.  Laziness of the summary: for an ErrorStash created with            *)
(* ErrorStash::new(f), f has been invoked 0 times as long as no error has  *)
(* been pushed (also when the empty stash has been converted to Ok(())),   *)
(* and exactly once as soon as one or more errors have been pushed, by     *)
(* whatever operation; so the one invocation happens at the first push.    *)
(***************************************************************************)
C1_Laziness ==
    origin = "new" =>
        /\ fcalls = IF log = <<>> THEN 0 ELSE 1
        /\ (ret.op = "into_result" /\ ret.val.tag = "Ok") => fcalls = 0

\* Two errors pushed into a stash made by new(), the last by an adapter.
C1_Witness ==
    /\ origin = "new" /\ IsErrorStash
    /\ Len(log) >= 2
    /\ ret.op \in {"try_collect_or_stash", "try_map_or_stash", "next"}
    /\ fcalls = 1

(***************************************************************************)
(* C2.  Order preservation: errors() returns exactly the pushed values in  *)
(* push order, and entry k of the builder's locations was captured by the  *)
(* push that appended entry k of the errors.  In a run of pushes the whole *)
(* history is returned; in general, the history since the last take().     *)
(***************************************************************************)
C2_OrderPreservation ==
    phase # "start" =>
        /\ errors = LogErrs(Kept)
        /\ locations = LogLocs(Kept)
        /\ taken = 0 => (errors = LogErrs(log) /\ locations = LogLocs(log))

\* Two different errors pushed from two different places, nothing taken.
C2_Witness ==
    /\ phase # "start" /\ taken = 0
    /\ Len(errors) >= 2
    /\ errors[1] # errors[2]
    /\ locations[1] # locations[2]

(***************************************************************************)
(* C3.  Non-emptiness of the NonEmpty state: an ErrorStash in the          *)
(* WithErrors state, and every StashWithErrors, holds at least one error.  *)
(***************************************************************************)
C3_NonEmpty == HasReferent => Len(Referent(stash).errors) >= 1

(***************************************************************************)
(* C4.  Stashed-node invariant: every Stashed Error obtained from a        *)
(* builder has as many locations as errors, and at least one error.        *)
(***************************************************************************)
C4_StashedInvariant ==
    \A i \in 1..Len(out) :
        /\ Len(out[i].errors) = Len(out[i].locations)
        /\ Len(out[i].errors) >= 1

(***************************************************************************)
(* C5.  Terminal conversion: converting an ErrorStash into a Result        *)
(* yields Ok(()) exactly if the stash is in the Empty state; otherwise it  *)
(* yields Err of a Stashed node with the builder's summary and all the     *)
(* errors and locations the builder holds, in push order.                  *)
(***************************************************************************)
C5_TerminalConversion ==
    ret.op = "into_result" =>
        /\ ret.val.tag = "Ok" <=> stash.tag = "Empty"
        /\ ret.val.tag = "Ok" => ret.val.val = <<>>
        /\ ret.val.tag = "Err" =>
              /\ ret.val.err = [kind      |-> "Stashed",
                                summary   |-> summary,
                                errors    |-> LogErrs(Kept),
                                locations |-> LogLocs(Kept)]
              /\ taken = 0 => ret.val.err.summary \in Gens

\* A stash holding two errors has been converted.
C5_Witness ==
    /\ ret.op = "into_result"
    /\ ret.val.tag = "Err"
    /\ Len(ret.val.err.errors) >= 2

(***************************************************************************)
(* C6.  Frame condition of push: on a builder that is already in its       *)
(* non-empty state, push appends exactly the pushed (error, location) pair *)
(* at the end and leaves the summary and everything stored before as it    *)
(* was.  The summary is the text the generator produced at the first push, *)
(* and no later operation on the builder replaces it, save take(), which   *)
(* moves it out together with the errors.                                  *)
(***************************************************************************)
C6_Step ==
    /\ (ret'.op \in {"push", "push_and_convert"} /\ HasReferent) =>
          LET old == Referent(stash)
              new == Referent(stash')
              pushed == log'[Len(log')]
          IN /\ Len(log') = Len(log) + 1
             /\ new.summary = old.summary
             /\ new.errors = Append(old.errors, pushed.err)
             /\ new.locations = Append(old.locations, pushed.loc)
    /\ (~HasReferent /\ HasReferent') => Referent(stash').summary \in Gens
    /\ (HasReferent /\ taken' = taken) =>
          Referent(stash').summary = Referent(stash).summary

C7_Step ==
    /\ IsErrorStash' => (ErrorStash_is_empty(stash') <=> log' = <<>>)
    /\ (IsErrorStash /\ IsErrorStash' /\ ~ErrorStash_is_empty(stash)) =>
          ~ErrorStash_is_empty(stash')

C7_IsEmpty == [][C7_Step]_vars

\* take() has removed all errors of the stash, and it is still not Empty.
C7_Witness ==
    /\ IsErrorStash /\ taken > 0
    /\ errors = <<>>
    /\ ~ErrorStash_is_empty(stash)

(***************************************************************************)
(* C8.  or_stash: on Ok(v) it returns StashedResult::Ok(v) and leaves the  *)
(* builder as it was (an Empty stash stays Empty, the generator is not     *)
(* invoked); on Err(e) it appends exactly e, as the last element, and      *)
(* returns StashedResult::Err referring to that builder, which is then     *)
(* not empty.                                                              *)
(***************************************************************************)
C8_Step ==
    ret'.op = "or_stash" =>
        IF ret'.in.tag = "Ok"
        THEN /\ ret'.val = StashedOk(ret'.in.val)
             /\ stash' = stash
             /\ fcalls' = fcalls
        ELSE /\ ErrorSource_errors(stash') =
                    Append(ErrorSource_errors(stash), ret'.in.err)
             /\ Len(Referent(stash').locations) = Len(locations) + 1
             /\ ret'.val.type = "StashedResult" /\ ret'.val.tag = "Err"
             /\ ret'.val.errs = Referent(stash')
             /\ Len(ret'.val.errs.errors) >= 1
             /\ IsErrorStash' => ~ErrorStash_is_empty(stash')

C8_OrStash == [][C8_Step]_vars

\* or_stash has appended a second error.
C8_Witness ==
    /\ ret.op = "or_stash" /\ ret.in.tag = "Err"
    /\ Len(errors) >= 2
    /\ errors[Len(errors)] = ret.in.err

(***************************************************************************)
(* C9.  or_create_stash(f): on Ok(v) it returns Ok(v) and f is not         *)
(* invoked; on Err(e) f is invoked exactly once and the result is Err of a *)
(* StashWithErrors with that summary and e as its sole element, to which   *)
(* or_stash appends further errors.                                        *)
(***************************************************************************)
C9_OrCreateStash ==
    /\ ret.op = "or_create_stash" =>
          IF ret.in.tag = "Ok"
          THEN /\ ret.val = Ok(ret.in.val)
               /\ fcalls = 0
               /\ stash = NoStash
          ELSE /\ fcalls = 1
               /\ Len(log) = 1
               /\ ret.val = Err([type      |-> "StashWithErrors",
                                 summary   |-> ret.f,
                                 errors    |-> <<ret.in.err>>,
                                 locations |-> <<log[1].loc>>])
               /\ stash = ret.val.err
    /\ origin = "or_create_stash" =>
          /\ stash.type = "StashWithErrors"
          /\ fcalls = 1
          /\ taken = 0 => (summary \in Gens /\ errors = LogErrs(log))

\* or_stash has appended a second error to a stash made by or_create_stash.
C9_Witness ==
    /\ origin = "or_create_stash"
    /\ ret.op = "or_stash"
    /\ Len(errors) = 2

(***************************************************************************)
(* C10.  or_wrap_with(f): on Ok(v) the value passes through and f is not   *)
(* evaluated; on Err(e) f is evaluated exactly once and the result is Err  *)
(* of a Wrapped error holding e as inner value and the text of f as        *)
(* context.  or_wrap does the same with no context (and no closure).       *)
(***************************************************************************)
C10_Step ==
    /\ ret'.op = "or_wrap_with" =>
          IF ret.val.tag = "Ok"
          THEN ret'.val = ret.val /\ fcalls' = fcalls
          ELSE /\ fcalls' = fcalls + 1
               /\ ret'.val = Err([kind     |-> "Wrapped",
                                  context  |-> Some(ret'.f),
                                  inner    |-> ret.val.err,
                                  location |-> ret'.loc])
    /\ ret'.op = "or_wrap" =>
          /\ fcalls' = fcalls
          /\ IF ret.val.tag = "Ok"
             THEN ret'.val = ret.val
             ELSE ret'.val = Err([kind     |-> "Wrapped",
                                  context  |-> None,
                                  inner    |-> ret.val.err,
                                  location |-> ret'.loc])

C10_OrWrapWith == [][C10_Step]_vars

\* An error has been wrapped with a context, the closure was called once.
C10_Witness ==
    /\ ret.op = "or_wrap_with"
    /\ ret.val.tag = "Err"
    /\ ret.val.err.context # None
    /\ fcalls = 1

(***************************************************************************)
(* History of a living StashErrIter: the items it has pulled from its      *)
(* source, and the errors the builder has been given since it was created. *)
(***************************************************************************)
IsOk(r) == r.tag = "Ok"
OkValues(items) == [i \in 1..Len(SelectSeq(items, IsOk)) |-> SelectSeq(items, IsOk)[i].val]
ErrValues(items) == [i \in 1..Len(Failures(items)) |-> Failures(items)[i].err]
Consumed == SubSeq(iter.src, 1, Len(iter.src) - Len(iter.items))
Added == SubSeq(errors, iter.before + 1, Len(errors))

(***************************************************************************)
(* C11.  stash_err partitions its input: once next() has returned None,    *)
(* the values it yielded are exactly the Ok values of the source, in       *)
(* order, the errors the builder was given are exactly the Err values, in  *)
(* order, and their numbers add up to the number of items.                 *)
(***************************************************************************)
C11_StashErrPartition ==
    (iter.active /\ ret.op = "next" /\ ret.val = None) =>
        /\ iter.items = <<>>
        /\ iter.yielded = OkValues(iter.src)
        /\ Added = ErrValues(iter.src)
        /\ Len(iter.yielded) + Len(Added) = Len(iter.src)

\* A source with a failure before a value has been consumed to its end.
C11_Witness ==
    /\ iter.active /\ ret.op = "next" /\ ret.val = None
    /\ Len(iter.src) = 2
    /\ iter.src[1].tag = "Err" /\ iter.src[2].tag = "Ok"
    /\ Len(iter.yielded) = 1 /\ Len(Added) = 1

(***************************************************************************)
(* C12.  stash_err is lazy and single-pass: creating the adapter pulls and *)
(* pushes nothing; the items pulled so far are a prefix of the source, the *)
(* rest is still to come; the values yielded and the errors pushed are     *)
(* those of that prefix; and a call of next() stops right after the Ok     *)
(* item it returns, so that the prefix ends with a failure only if the     *)
(* last call ran to the end of the source.                                 *)
(***************************************************************************)
C12_StashErrLazy ==
    iter.active =>
        /\ iter.src = Consumed \o iter.items
        /\ iter.yielded = OkValues(Consumed)
        /\ Added = ErrValues(Consumed)
        /\ ret.op = "stash_err" => (Consumed = <<>> /\ Added = <<>>)
        /\ (Consumed # <<>> /\ Consumed[Len(Consumed)].tag = "Err") =>
              (ret.op = "next" /\ ret.val = None /\ iter.items = <<>>)

\* One value has been requested; the failure behind it is still in the
\* source and not in the builder.
C12_Witness ==
    /\ iter.active /\ ret.op = "next"
    /\ Len(iter.yielded) = 1
    /\ iter.items # <<>> /\ iter.items[1].tag = "Err"
    /\ Added = <<>>

(***************************************************************************)
(* C13.  try_collect_or_stash reports failure only for the errors of this  *)
(* call: whatever the builder held before, it returns StashedResult::Err   *)
(* if and only if at least one item of the iterator is Err, and            *)
(* StashedResult::Ok of the collection otherwise.                          *)
(***************************************************************************)
C13_TryCollectOwnErrors ==
    ret.op = "try_collect_or_stash" =>
        /\ ret.val.type = "StashedResult"
        /\ ret.val.tag = "Err" <=> Failures(ret.in) # <<>>
        /\ ret.val.tag = "Ok" <=> Failures(ret.in) = <<>>

\* The builder held an error before the call, the call returned Ok.
C13_Witness ==
    /\ ret.op = "try_collect_or_stash"
    /\ ret.in # <<>>
    /\ ret.val.tag = "Ok"
    /\ Len(errors) >= 1

(***************************************************************************)
(* C14.  try_collect_or_stash drains the whole iterator: it appends one    *)
(* error per Err item, in input order (each wrapped by or_wrap, which      *)
(* records the call in try_collect_or_stash); if all items are Ok it       *)
(* returns their values in input order and leaves the builder as it was;   *)
(* if any item is Err it returns the marker of the builder and no values.  *)
(***************************************************************************)
WrappedErrs(items) ==
    [i \in 1..Len(Failures(items)) |->
        [kind     |-> "Wrapped",
         context  |-> None,
         inner    |-> Failures(items)[i].err,
         location |-> LocTryCollectWrap]]

C14_Step ==
    ret'.op = "try_collect_or_stash" =>
        /\ ErrorSource_errors(stash') = errors \o WrappedErrs(ret'.in)
        /\ Len(ErrorSource_errors(stash')) = Len(errors) + Len(Failures(ret'.in))
        /\ IF Failures(ret'.in) = <<>>
           THEN /\ ret'.val = StashedOk(OkValues(ret'.in))
                /\ stash' = stash
           ELSE /\ ret'.val = StashedErr(Referent(stash'))
                /\ Len(Referent(stash').locations) =
                      Len(locations) + Len(Failures(ret'.in))

C14_TryCollectDrains == [][C14_Step]_vars

\* Two failing items: both are in the builder, in input order.
C14_Witness ==
    /\ ret.op = "try_collect_or_stash"
    /\ Len(Failures(ret.in)) = 2
    /\ ret.in[1] # ret.in[2]
    /\ Len(errors) = 2
    /\ errors[1].inner = ret.in[1].err /\ errors[2].inner = ret.in[2].err

(***************************************************************************)
(* What try_map_or_stash(from_str, ..) was called on, as recorded in ret:  *)
(* the result of mapping each element, and the failures among them with    *)
(* the places they are stashed at.                                         *)
(***************************************************************************)
MappedElem(r, i) ==
    IF r.on = "T" THEN from_str[r.in[i]]
    ELSE IF r.in[i].tag = "Err" THEN r.in[i]
    ELSE from_str[r.in[i].val]
ElemFailures(r) ==
    IF r.on = "T"
    THEN Concat([i \in 1..Len(r.in) |-> PlainFailure(r.in[i], from_str)])
    ELSE Concat([i \in 1..Len(r.in) |-> ResultFailure(r.in[i], from_str)])
NoElemFailed(r) == \A i \in 1..Len(r.in) : MappedElem(r, i).tag = "Ok"

(***************************************************************************)
(* C15.  try_map_or_stash returns StashedResult::Ok of the N mapped values *)
(* in element order if and only if no element failed during this call (no  *)
(* input element is Err, mapFn returned Ok for every element), whatever    *)
(* the builder held before; otherwise it returns StashedResult::Err        *)
(* referring to the builder, and no array.                                 *)
(***************************************************************************)
C15_TryMapOwnErrors ==
    ret.op = "try_map_or_stash" =>
        IF NoElemFailed(ret)
        THEN ret.val = StashedOk([i \in 1..Len(ret.in) |-> MappedElem(ret, i).val])
        ELSE /\ ret.val = StashedErr(Referent(stash))
             /\ Len(Referent(stash).errors) >= 1

\* The builder held an error before the call, the call returned the array.
C15_Witness ==
    /\ ret.op = "try_map_or_stash"
    /\ ret.in # <<>>
    /\ ret.val.tag = "Ok"
    /\ Len(ret.val.val) = Len(ret.in)
    /\ Len(errors) >= 1

(***************************************************************************)
(* C16.  try_map_or_stash touches all elements: of an array of which k     *)
(* elements fail (an Err element, or mapFn returning Err) it appends       *)
(* exactly k errors to the builder, one per failing element, in element    *)
(* order.                                                                  *)
(***************************************************************************)
C16_Step ==
    ret'.op = "try_map_or_stash" =>
        /\ ErrorSource_errors(stash') = errors \o LogErrs(ElemFailures(ret'))
        /\ NoElemFailed(ret') => stash' = stash
        /\ ~NoElemFailed(ret') =>
              Referent(stash').locations = locations \o LogLocs(ElemFailures(ret'))
        /\ Len(ElemFailures(ret')) =
              Cardinality({i \in 1..Len(ret'.in) : MappedElem(ret', i).tag = "Err"})

C16_TryMapTouchesAll == [][C16_Step]_vars

\* Both elements of a two-element array failed: two errors, not one.
C16_Witness ==
    /\ ret.op = "try_map_or_stash"
    /\ Len(ret.in) = 2
    /\ Len(ElemFailures(ret)) = 2
    /\ Len(errors) = 2
    /\ ret.val.tag = "Err"

(***************************************************************************)
(* C17.  Early return by try2!: applied to a StashedResult::Err marker it  *)
(* makes the caller return an Error whose Stashed node holds the summary,  *)
(* the errors and the locations of the builder as they are at that moment, *)
(* in push order; on a builder nothing was taken from before, that is the  *)
(* generator's summary and every error pushed so far, those of earlier     *)
(* calls included.  Applied to StashedResult::Ok(v) it yields v and leaves *)
(* the builder alone.                                                      *)
(***************************************************************************)
C17_Step ==
    ret'.op = "try2" =>
        IF ret.val.tag = "Ok"
        THEN /\ ret'.flow = "continue"
             /\ ret'.val = ret.val.val
             /\ stash' = stash
             /\ out' = out
        ELSE /\ ret'.flow = "return"
             /\ ret'.val = Err([kind      |-> "Stashed",
                                summary   |-> summary,
                                errors    |-> errors,
                                locations |-> locations])
             /\ out' = Append(out, ret'.val.err)
             /\ taken = 0 => /\ summary \in Gens
                             /\ errors = LogErrs(log)
                             /\ locations = LogLocs(log)

OutErrs == Concat([i \in 1..Len(out) |-> out[i].errors])
OutLocs == Concat([i \in 1..Len(out) |-> out[i].locations])

C18_Step ==
    /\ (ret'.op = "try2" /\ ret'.flow = "return") =>
          /\ Referent(stash').summary = "Internal error: Error info cleared by take()"
          /\ Referent(stash').errors = <<>>
          /\ Referent(stash').locations = <<>>
    /\ \A i \in 2..Len(out') :
          /\ out'[i].summary = "Internal error: Error info cleared by take()"
          /\ out'[i].summary \notin Gens
    /\ Len(OutErrs') <= Len(log')
    /\ OutErrs' = LogErrs(SubSeq(log', 1, Len(OutErrs')))

C18_TakeLeavesPlaceholder == [][C18_Step]_vars

\* An error pushed after a take() has been returned by a second take(): the
\* second Error has the placeholder's summary and only the later error.
C18_Witness ==
    /\ Len(out) = 2
    /\ ret.op = "try2" /\ ret.flow = "return"
    /\ Len(out[1].errors) = 1 /\ Len(out[2].errors) = 1
    /\ out[2].summary # out[1].summary
    /\ errors = <<>>

(***************************************************************************)
(* C19.  ErrorStash::ok() is a barrier that does not consume the stash: it *)
(* returns StashedResult::Ok(()) if the stash holds no errors and          *)
(* StashedResult::Err, referring to the errors held, otherwise.            *)
(***************************************************************************)
C19_OkBarrier ==
    ret.op = "ok" =>
        /\ ret.val.tag = "Ok" <=> errors = <<>>
        /\ ret.val.tag = "Ok" => ret.val.val = <<>>
        /\ ret.val.tag = "Err" =>
              /\ ret.val.errs = Referent(stash)
              /\ Len(ret.val.errs.errors) >= 1

(***************************************************************************)
(* C20.  No failure is dropped: every error handed to the builder, with    *)
(* its location, is exactly once either in an Error produced from the      *)
(* builder (by take() or by conversion) or, while the builder lives, in    *)
(* the builder: the errors returned so far followed by the errors held are *)
(* the errors pushed, in push order.                                       *)
(***************************************************************************)
C20_NothingDropped ==
    /\ phase = "live" =>
          /\ LogErrs(log) = OutErrs \o errors
          /\ LogLocs(log) = OutLocs \o locations
    /\ phase = "done" =>
          /\ LogErrs(log) = OutErrs
          /\ LogLocs(log) = OutLocs

\* One error has been returned by take(), another is in the builder.
C20_Witness ==
    /\ phase = "live"
    /\ Len(out) = 1 /\ Len(out[1].errors) = 1
    /\ Len(errors) = 1
    /\ Len(log) = 2

(***************************************************************************)
(* enforce_errors.  Every operation sets ret to its own result, so a step  *)
(* after which ret is a result of enforce_errors is a call of it.          *)
(***************************************************************************)
EnforceStep == ret'.op = "enforce_errors"
IsInternalError(e) == e.kind = "AdHoc" /\ e.message = INTERNAL_ERROR

(***************************************************************************)
(* C24.  enforce_errors is idempotent on an ErrorStash that was empty at   *)
(* the first call: the first call puts exactly one error, the ad-hoc error *)
(* "INTERNAL ERROR", into it, every further call leaves the stash as it    *)
(* is and returns the same StashWithErrors, and the stash (nothing else    *)
(* having been pushed or taken) then converts to an Error that prints, in  *)
(* the compact form, "<summary>: INTERNAL ERROR".                          *)
(***************************************************************************)
C24_Step ==
    /\ (EnforceStep /\ IsErrorStash /\ stash.tag = "Empty") =>
          /\ \E loc \in Locs :
                ErrorSource_errors(stash') = <<Error_from_message(INTERNAL_ERROR, loc)>>
          /\ ret'.val = Referent(stash')
          /\ Referent(stash').summary = stash.f
    /\ (EnforceStep /\ IsErrorStash /\ ret.op = "enforce_errors") =>
          /\ stash' = stash
          /\ log' = log
          /\ ret'.val = ret.val
    /\ (/\ ret'.op = "into_result" /\ ret.op = "enforce_errors"
        /\ Len(log) = 1 /\ IsInternalError(log[1].err) /\ out = <<>>) =>
          /\ ret'.val.tag = "Err"
          /\ Display_fmt(ret'.val.err, FALSE) =
                <<Referent(stash).summary \o ": " \o INTERNAL_ERROR>>

C24_EnforceErrorsIdempotent == [][C24_Step]_vars

\* enforce_errors has been called a second time, right after the first, on
\* a stash that was empty: there is one error, and it prints as in the test.
C24_Witness ==
    /\ ret.op = "enforce_errors" /\ ret.again
    /\ IsErrorStash
    /\ Len(log) = 1 /\ IsInternalError(log[1].err)
    /\ Len(errors) = 1 /\ IsInternalError(errors[1])
    /\ Display_fmt(From_StashWithErrors_for_Error(Referent(stash)), FALSE) =
          <<"Failure: INTERNAL ERROR">>

(***************************************************************************)
(* C25.  enforce_errors does not modify a builder that is not Empty (an    *)
(* ErrorStash in the state WithErrors, or any StashWithErrors): it returns *)
(* that very stash, with summary, errors and locations as they were, adds  *)
(* no placeholder and does not call the summary generator.                 *)
(***************************************************************************)
C25_Step ==
    (EnforceStep /\ HasReferent) =>
        /\ stash' = stash
        /\ ret'.val = Referent(stash)
        /\ log' = log
        /\ fcalls' = fcalls

C25_EnforceErrorsKeeps == [][C25_Step]_vars

\* enforce_errors has been called on a StashWithErrors holding two errors
\* of the user.
C25_Witness ==
    /\ ret.op = "enforce_errors"
    /\ stash.type = "StashWithErrors"
    /\ Len(errors) = 2
    /\ \A i \in 1..2 : errors[i].kind = "Foreign"
    /\ ret.val = stash

(***************************************************************************)
(* C26.  What enforce_errors returns has at least one error, in every      *)
(* reachable state of the builder, a builder try2! has taken the errors    *)
(* out of included.                                                        *)
(***************************************************************************)
C26_EnforcedNonEmpty ==
    ret.op = "enforce_errors" => Len(ret.val.errors) >= 1

(***************************************************************************)
(* C27.  The unreachable!() arms of ErrorStash::push and of or_stash on an *)
(* ErrorStash are never run: whatever state the stash is in (Empty,        *)
(* WithErrors, emptied by take()) and whatever error is pushed, the stash  *)
(* is WithErrors when push and or_stash match on it, and both evaluate to  *)
(* the StashWithErrors in it.                                              *)
(***************************************************************************)
C27_UnreachableNeverRun ==
    /\ (phase = "live" /\ IsErrorStash) =>
          \A e \in ForeignErrs, loc \in Locs :
            /\ \E p \in {ErrorStash_push(stash, e, loc)} :
                  /\ p.stash.tag = "WithErrors"
                  /\ p.ret # Unreachable
                  /\ p.ret = p.stash.swe
            /\ \E o \in {OrStash_for_ErrorStash(Err(e), stash, loc)} :
                  /\ o.stash.tag = "WithErrors"
                  /\ o.ret # Unreachable
                  /\ o.ret = StashedErr(o.stash.swe)
    /\ ret.op \in {"push", "or_stash"} => ret.val # Unreachable

\* An error has been pushed into an ErrorStash that try2! had emptied.
C27_Witness ==
    /\ ret.op = "push"
    /\ IsErrorStash
    /\ Len(out) >= 1
    /\ summary = WARNING
    /\ Len(errors) = 1
    /\ ret.val = stash.swe

(***************************************************************************)
(* C28.  try_collect_or_stash and try_map_or_stash put no internal         *)
(* placeholder into the builder: what a call adds are exactly the failures *)
(* of its items, one error each, none of them "INTERNAL ERROR" or          *)
(* "INTERNAL ERROR: Failed to convert vector to array"; and when the call  *)
(* returns StashedResult::Err (the path on which enforce_errors is         *)
(* called), it has added at least one error itself.                        *)
(***************************************************************************)
IsPlaceholder(e) ==
    e.kind = "AdHoc" /\ e.message \in {INTERNAL_ERROR, VEC_TO_ARRAY_FAILED}
FailureCount(r) ==
    IF r.op = "try_collect_or_stash" THEN Len(Failures(r.in))
    ELSE Len(ElemFailures(r))

C28_Step ==
    ret'.op \in {"try_collect_or_stash", "try_map_or_stash"} =>
        \E after \in {ErrorSource_errors(stash')} :
            /\ Len(after) = Len(errors) + FailureCount(ret')
            /\ SubSeq(after, 1, Len(errors)) = errors
            /\ \A i \in Len(errors) + 1 .. Len(after) : ~IsPlaceholder(after[i])
            /\ ret'.val.tag = "Err" =>
                  /\ FailureCount(ret') >= 1
                  /\ ret'.val.errs = Referent(stash')
            /\ ret'.val.tag = "Ok" => FailureCount(ret') = 0

C28_NoPlaceholder == [][C28_Step]_vars

\* try_map_or_stash has failed on a stash that try2! had emptied: the one
\* error in it is the failure of the element.
C28_Witness ==
    /\ ret.op = "try_map_or_stash"
    /\ ret.val.tag = "Err"
    /\ Len(out) >= 1
    /\ Len(errors) = 1
    /\ ~IsPlaceholder(errors[1])

(***************************************************************************)
(* C29.  The views of emptiness of an ErrorStash agree: in every reachable *)
(* state, is_empty() is true exactly if errors() is empty, exactly if ok() *)
(* returns StashedResult::Ok(()), exactly if the conversion to a Result    *)
(* yields Ok(()).                                                          *)
(***************************************************************************)
C29_EmptinessViews ==
    (phase = "live" /\ IsErrorStash) =>
        /\ ErrorStash_is_empty(stash) <=> (ErrorStash_errors(stash) = <<>>)
        /\ ErrorStash_is_empty(stash) <=> (ErrorStash_ok(stash).tag = "Ok")
        /\ ErrorStash_is_empty(stash) <=> (ErrorStash_into_result(stash).tag = "Ok")

(***************************************************************************)
(* Rendering claims, under SpecDisplay.  Printed(k, is_pretty) is: an      *)
(* Error of kind k has just been printed in that mode.                     *)
(***************************************************************************)
Printed(k, is_pretty) ==
    /\ phase = "display"
    /\ ret.op = "format"
    /\ ret.pretty = is_pretty
    /\ ret.val.kind = k

Compact(e) == Display_fmt(e, FALSE)
Pretty(e) == Display_fmt(e, TRUE)

\* The block of one entry of a pretty list: the entry's lines behind a
\* bullet, then the entry's location.
Bulleted(text) ==
    The({ [i \in 1..Len(lines) |->
              IF i = 1 THEN "- " \o lines[i] ELSE "  " \o lines[i]] :
          lines \in {Lines(text)} })
RECURSIVE Blocks(_, _)
Blocks(errs, locs) ==
    IF errs = <<>> THEN <<>>
    ELSE Bulleted(Pretty(Head(errs))) \o <<"  at " \o Head(locs)>>
             \o Blocks(Tail(errs), Tail(locs))
RECURSIVE SumLines(_)
SumLines(errs) ==
    IF errs = <<>> THEN 0
    ELSE Len(Lines(Pretty(Head(errs)))) + SumLines(Tail(errs))
Min(a, b) == IF a <= b THEN a ELSE b

C23_Wrapped ==
    (/\ phase = "display"
     /\ ret.op = "format"
     /\ ret.val.kind = "Wrapped") =>
        \E prefix \in {IF ret.val.context = None THEN ""
                        ELSE ret.val.context[1] \o ": "} :
          \E inner \in {Display_fmt(ret.val.inner, ret.pretty)} :
            \E prefixed \in {<<prefix \o inner[1]>> \o Tail(inner)} :
                IF ret.pretty
                THEN ret.text = prefixed \o <<"at " \o ret.val.location>>
                ELSE ret.text = prefixed

\* The inner error is an ad-hoc error, which prints its own location.
C23_Witness ==
    /\ Printed("Wrapped", TRUE)
    /\ ret.text = <<Context \o ": Cleanup failed", "at " \o LocCleanup, "at " \o LocWrap>>

(***************************************************************************)
(* C30.  A Stashed node whose lists of errors and of locations differ in   *)
(* length: with at least one error and no location, both renderings are    *)
(* "<summary>: 0 source locations"; with no error, both are                *)
(* "<summary>: 0 errors"; otherwise the pretty rendering shows the first   *)
(* min(#errors, #locations) pairs of an error and a location and nothing   *)
(* of the rest, and the compact rendering follows the count rule on all    *)
(* the errors.                                                             *)
(***************************************************************************)
C30_UnequalLists ==
    (/\ phase = "display"
     /\ ret.op = "format"
     /\ ret.val.kind = "Stashed"
     /\ Len(ret.val.errors) # Len(ret.val.locations)) =>
        \E n \in {Len(ret.val.errors)}, m \in {Min(Len(ret.val.errors),
                                                   Len(ret.val.locations))} :
            /\ (n >= 1 /\ m = 0) =>
                  ret.text = <<ret.val.summary \o ": 0 source locations">>
            /\ n = 0 => ret.text = <<ret.val.summary \o ": 0 errors">>
            /\ (m >= 1 /\ ret.pretty) =>
                  ret.text = <<ret.val.summary>>
                                \o Blocks(SubSeq(ret.val.errors, 1, m),
                                          SubSeq(ret.val.locations, 1, m))
            /\ (m >= 1 /\ ~ret.pretty /\ n = 1) =>
                  ret.text = <<ret.val.summary \o ": " \o Compact(ret.val.errors[1])[1]>>
            /\ (m >= 1 /\ ~ret.pretty /\ n >= 2) =>
                  ret.text = <<ret.val.summary \o " (" \o ToString(n) \o " errors)">>

\* Two errors and one location: one block is printed.
C30_Witness ==
    /\ Printed("Stashed", TRUE)
    /\ Len(ret.val.errors) = 2
    /\ ret.text = <<Summary, "- e1", "  at src/main.rs:10">>

====
